---------------------------- MODULE Spec2Model ----------------------------
(***************************************************************************)
(* The AssessmentResults page (src/src/pages/AssessmentResults.tsx) as a   *)
(* state machine: the component's state hooks, the location effect, the    *)
(* two asynchronous operations it starts (session check, history fetch)    *)
(* and the values derived at render time (chart series, breakdown table,   *)
(* score colour, export text).                                             *)
(***************************************************************************)
EXTENDS Integers, Sequences, FiniteSets, TLC

VARIABLES
    mounted,            \* a component instance is alive
    mounts,             \* number of mounts so far
    route,              \* where the router stands (last navigate() target)
    location,           \* location.state of the current routing location
    locationsSeen,      \* locations delivered to the live instance since mount
    effectsRun,         \* runs of the [location] effect in the live instance
    results,            \* useState: results            (line 67)
    responses,          \* useState: responses          (line 68)
    loading,            \* useState: loading            (line 69)
    userId,             \* useState: userId             (line 70)
    assessmentHistory,  \* useState: assessmentHistory  (line 71)
    pendingChecks,      \* getSession() promises in flight, by owner
    pendingFetches,     \* history queries in flight, by owner and user id
    sessionQueries,     \* getSession() calls made by the live instance
    historyQueries,     \* history queries issued for the live instance
    lastEvent,          \* the handler that ran last and what it was given
    clock,              \* wall clock, in units of the export's date line
    exported,           \* text handed to the download link by downloadResults
    chartData,          \* chart series of the last render
    tableData,          \* breakdown rows of the last render
    scoreA,             \* a score handed to getScoreColor
    scoreB,             \* another score handed to getScoreColor
    colorA,             \* getScoreColor(scoreA), once applied
    colorB              \* getScoreColor(scoreB), once applied

pageVars == <<mounted, mounts, route, location, locationsSeen, effectsRun>>
hookVars == <<results, responses, loading, userId, assessmentHistory>>
asyncVars == <<pendingChecks, pendingFetches, sessionQueries, historyQueries>>
viewVars == <<clock, exported, chartData, tableData>>
colorVars == <<scoreA, scoreB, colorA, colorB>>
vars == <<pageVars, hookVars, asyncVars, lastEvent, viewVars, colorVars>>

----------------------------------------------------------------------------
(* Bounds of the model *)

MaxMounts == 2
MaxLocations == 2
MaxInFlight == 2

----------------------------------------------------------------------------
(* Optional values: null / absent is None, a present value v is Some(v) *)

None == <<>>
Some(v) == <<v>>
Get(o) == o[1]

\* Who started an operation in flight: the instance on screen ("live") or
\* one that has been dismounted since ("stale").
Owners == {"live", "stale"}
UserIds == {"u1", "u2"}

PageRoute == "/assessment-results"
AuthRoute == "/auth"

----------------------------------------------------------------------------
(* Static tables (lines 42-61) *)

questionBank ==
    << [id |-> 1, text |-> "How would you rate your overall mood today?", category |-> "emotional"],
       [id |-> 2, text |-> "How well did you sleep last night?", category |-> "sleep"],
       [id |-> 3, text |-> "How stressed do you feel right now?", category |-> "stress"],
       [id |-> 4, text |-> "How satisfied are you with your social connections?", category |-> "social"],
       [id |-> 5, text |-> "How would you rate your energy levels?", category |-> "physical"],
       [id |-> 6, text |-> "How balanced do you feel between work and personal life?", category |-> "balance"],
       [id |-> 7, text |-> "How well are you taking care of yourself?", category |-> "selfcare"],
       [id |-> 8, text |-> "How clear and focused is your thinking today?", category |-> "mental"],
       [id |-> 9, text |-> "How well do you handle challenges?", category |-> "resilience"],
       [id |-> 10, text |-> "How satisfied are you with your life overall?", category |-> "satisfaction"] >>

\* The own properties of the scaleLabels object literal.
scaleLabels ==
    [k \in {"1", "2", "3", "4", "5"} |->
        CASE k = "1" -> "Very Poor"
          [] k = "2" -> "Poor"
          [] k = "3" -> "Fair"
          [] k = "4" -> "Good"
          [] k = "5" -> "Excellent"]

\* scaleLabels is a plain object literal, so a property read that finds no
\* own property goes on to Object.prototype.  These are members every plain
\* object inherits, given by the text their value converts to.
ObjectPrototype ==
    [k \in {"constructor", "toString", "valueOf"} |->
        CASE k = "constructor" -> "function Object() { [native code] }"
          [] k = "toString" -> "function toString() { [native code] }"
          [] k = "valueOf" -> "function valueOf() { [native code] }"]

\* scaleLabels[answer]: the own property, else the inherited one, else
\* undefined (None).
ScaleLabelsGet(answer) ==
    IF answer \in DOMAIN scaleLabels THEN Some(scaleLabels[answer])
    ELSE IF answer \in DOMAIN ObjectPrototype THEN Some(ObjectPrototype[answer])
    ELSE None

\* scaleLabels[answer] || answer   (line 164); every value ScaleLabelsGet
\* can give is truthy.
AnswerLabel(answer) ==
    IF ScaleLabelsGet(answer) # None THEN Get(ScaleLabelsGet(answer)) ELSE answer

----------------------------------------------------------------------------
(* Response maps.  A response map is a JavaScript object keyed by question *)
(* id.  It is written here as the sequence of [id, answer] entries in the  *)
(* order its properties were created; ids are distinct array-index keys.   *)

\* The largest decimal key parseInt is asked to read in this model.
MaxKey == 12

PropertyKey(id) == ToString(id)

\* parseInt on a canonical decimal key: the number the digits denote.
ParseInt(key) == CHOOSE n \in 0 .. MaxKey : ToString(n) = key

\* parseInt(answer): the number a decimal answer denotes, NaN (None) for an
\* answer that does not start with a digit.
ParseAnswer(answer) ==
    IF \E n \in 0 .. MaxKey : ToString(n) = answer
    THEN Some(ParseInt(answer)) ELSE None

RECURSIVE AscendingIds(_)
AscendingIds(S) ==
    IF S = {} THEN <<>>
    ELSE LET m == CHOOSE x \in S : \A y \in S : x <= y
         IN <<m>> \o AscendingIds(S \ {m})

EntryOf(obj, id) == CHOOSE i \in 1 .. Len(obj) : obj[i].id = id

\* A slip: the entries come out in the order the properties were created.
ObjectEntriesAsInserted(obj) ==
    [i \in 1 .. Len(obj) |-> [key |-> PropertyKey(obj[i].id), value |-> obj[i].answer]]

\* Object.entries(obj): integer-like keys come out in ascending numeric
\* order, whatever the order they were created in.
ObjectEntries(obj) ==
    LET ids == AscendingIds({obj[i].id : i \in 1 .. Len(obj)})
    IN [i \in 1 .. Len(ids) |->
          [key |-> PropertyKey(ids[i]), value |-> obj[EntryOf(obj, ids[i])].answer]]

\* A slip: questionBank[questionNum], the question at that (0-based) index.
FindQuestionByIndex(questionNum) ==
    IF questionNum + 1 \in 1 .. Len(questionBank)
    THEN Some(questionBank[questionNum + 1]) ELSE None

\* questionBank.find((q) => q.id === questionNum)   (line 159)
FindQuestion(questionNum) ==
    IF \E i \in 1 .. Len(questionBank) : questionBank[i].id = questionNum
    THEN Some(questionBank[CHOOSE i \in 1 .. Len(questionBank) :
                 /\ questionBank[i].id = questionNum
                 /\ \A j \in 1 .. i - 1 : questionBank[j].id # questionNum])
    ELSE None

\* One row of tableData   (lines 157-166)
TableRow(entry) ==
    LET questionNum == ParseInt(entry.key)
        question == FindQuestion(questionNum)
    IN [questionId |-> questionNum,
        question |-> IF question # None THEN Get(question).text ELSE "Unknown question",
        category |-> IF question # None THEN Get(question).category ELSE "Unknown",
        answer |-> AnswerLabel(entry.value),
        score |-> ParseAnswer(entry.value)]

\* tableData   (lines 157-167)
TableData(resp) ==
    LET entries == ObjectEntries(resp)
    IN [i \in 1 .. Len(entries) |-> TableRow(entries[i])]

----------------------------------------------------------------------------
(* Score colour (lines 170-175) *)

\* A slip: > for >= at the thresholds.
getScoreColorStrict(score) ==
    IF score > 40 THEN "text-green-500"
    ELSE IF score > 30 THEN "text-blue-500"
    ELSE IF score > 20 THEN "text-yellow-500"
    ELSE "text-red-500"

getScoreColor(score) ==
    IF score >= 40 THEN "text-green-500"
    ELSE IF score >= 30 THEN "text-blue-500"
    ELSE IF score >= 20 THEN "text-yellow-500"
    ELSE "text-red-500"

----------------------------------------------------------------------------
(* Chart series (lines 150-154, 272) *)

\* A creation time is [day, tick]; toLocaleDateString keeps the day only.
ToLocaleDateString(t) == "day " \o ToString(t.day)

\* Array.prototype.slice(): a fresh copy; the array itself stays as it is.
Slice(arr) == [copy |-> arr, array |-> arr]

\* Array.prototype.reverse(): reverses the array in place and returns it.
ArrayReverse(arr) ==
    LET r == [i \in 1 .. Len(arr) |-> arr[Len(arr) + 1 - i]]
    IN [result |-> r, array |-> r]

ChartPoint(assessment, index) ==
    [name |-> "Assessment " \o ToString(index + 1),
     score |-> assessment.overall_score,
     date |-> ToLocaleDateString(assessment.created_at)]

\* A slip: assessmentHistory.reverse() without the slice().
BuildChartInPlace(history) ==
    LET reversed == ArrayReverse(history)
    IN [chartData |-> [i \in 1 .. Len(reversed.result) |->
                          ChartPoint(reversed.result[i], i - 1)],
        assessmentHistory |-> reversed.array]

\* assessmentHistory.slice().reverse().map(...): the series, and the
\* history array as the expression leaves it.
BuildChart(history) ==
    LET copied == Slice(history)
        reversed == ArrayReverse(copied.copy)
    IN [chartData |-> [i \in 1 .. Len(reversed.result) |->
                          ChartPoint(reversed.result[i], i - 1)],
        assessmentHistory |-> copied.array]

\* chartData.length > 1 && <Card> ... Assessment Trend   (line 272)
ChartShown(chart) == Len(chart) > 1

----------------------------------------------------------------------------
(* Export text (lines 177-188).  The text is a sequence of lines, a line   *)
(* the sequence of the template's literal pieces and interpolated values.  *)

\* new Date().toLocaleString() of the clock reading.
ToLocaleString(now) == "time " \o ToString(now)

IsBlank(line) == \A i \in 1 .. Len(line) : line[i] \in {"", "    "}

RECURSIVE TrimEnd(_)
TrimEnd(lines) ==
    IF lines # <<>> /\ IsBlank(lines[Len(lines)])
    THEN TrimEnd(SubSeq(lines, 1, Len(lines) - 1)) ELSE lines

RECURSIVE TrimStart(_)
TrimStart(lines) ==
    IF lines # <<>> /\ IsBlank(lines[1]) THEN TrimStart(Tail(lines)) ELSE lines

\* String.prototype.trim() on the lines: blank lines at both ends go.
Trim(lines) == TrimStart(TrimEnd(lines))

\* `Q: ${row.question}\nA: ${row.answer}\n`
RowText(row) == << <<"Q: ", row.question>>, <<"A: ", row.answer>> >>

\* tableData.map(...).join("\n"): each row ends in a newline, and the
\* separator leaves an empty line between two rows.
RECURSIVE JoinRows(_)
JoinRows(rows) ==
    IF rows = <<>> THEN <<>>
    ELSE IF Len(rows) = 1 THEN RowText(rows[1])
    ELSE RowText(rows[1]) \o << <<>> >> \o JoinRows(Tail(rows))

ExportContent(res, rows, now) ==
    Trim(<< <<>>,
            <<"Assessment Results">>,
            <<"Date: ", ToLocaleString(now)>>,
            <<"Overall Score: ", ToString(res.overallScore), "/50">>,
            <<>>,
            <<"Insights:">>,
            <<res.insights>>,
            <<>>,
            <<"Questions & Answers:">> >>
         \o JoinRows(rows)
         \o << <<>>, <<"    ">> >>)

----------------------------------------------------------------------------
(* Values the environment supplies *)

DashboardRoute == "/dashboard"

R1 == [overallScore |-> 42, insights |-> "Good balance"]

\* {11: "3", 2: "5"} as written: an id outside the question bank first.
M1 == << [id |-> 11, answer |-> "3"], [id |-> 2, answer |-> "5"] >>

\* location.state: results and responses, each present or absent.
NavStates == [results : {None, Some(R1)}, responses : {None, Some(<<>>), Some(M1)}]
NoState == [results |-> None, responses |-> None]

Record(score, day, tick) ==
    [overall_score |-> score, created_at |-> [day |-> day, tick |-> tick]]

\* What the store may answer with, newest first.
StoreAnswers == { <<>>, <<Record(35, 2, 0)>>, <<Record(47, 2, 0), Record(35, 1, 0)>> }

Event(op, session, outcome, live) ==
    [op |-> op, session |-> session, outcome |-> outcome, live |-> live]

Inc(f, k) == [f EXCEPT ![k] = @ + 1]
Dec(f, k) == [f EXCEPT ![k] = @ - 1]

\* The instance that started an operation is still the one on screen.
Live(owner) == mounted /\ owner = "live"

\* Session checks and history queries in flight, whoever started them.
InFlight ==
    LET Sum(f, keys) ==
          LET RECURSIVE Go(_)
              Go(K) == IF K = {} THEN 0
                       ELSE LET k == CHOOSE x \in K : TRUE IN f[k] + Go(K \ {k})
          IN Go(keys)
    IN Sum(pendingChecks, Owners) + Sum(pendingFetches, Owners \X UserIds)

\* A state setter called by an instance that is gone changes nothing.
SetState(live, cur, new) == IF live THEN new ELSE cur

----------------------------------------------------------------------------
(* The component *)

HooksInit ==
    /\ results = None
    /\ responses = <<>>
    /\ loading = TRUE
    /\ userId = None
    /\ assessmentHistory = <<>>

\* A fresh instance's state hooks   (lines 67-71)
HooksReset ==
    /\ results' = None
    /\ responses' = <<>>
    /\ loading' = TRUE
    /\ userId' = None
    /\ assessmentHistory' = <<>>

ViewIdle ==
    /\ clock = 0
    /\ exported = <<>>
    /\ chartData = <<>>
    /\ tableData = <<>>

ColorIdle ==
    /\ scoreA = 0
    /\ scoreB = 0
    /\ colorA = ""
    /\ colorB = ""

Init ==
    /\ mounted = FALSE
    /\ mounts = 0
    /\ route = DashboardRoute
    /\ location = NoState
    /\ locationsSeen = 0
    /\ effectsRun = 0
    /\ HooksInit
    /\ pendingChecks = [o \in Owners |-> 0]
    /\ pendingFetches = [k \in Owners \X UserIds |-> 0]
    /\ sessionQueries = 0
    /\ historyQueries = 0
    /\ lastEvent = Event("init", None, "", FALSE)
    /\ ViewIdle
    /\ ColorIdle

\* The router renders the page: the state hooks take their initial values
\* (lines 67-71) and the first render shows the loading screen.
Mount(s) ==
    /\ ~mounted
    /\ mounts < MaxMounts
    /\ mounted' = TRUE
    /\ mounts' = mounts + 1
    /\ route' = PageRoute
    /\ location' = s
    /\ locationsSeen' = 1
    /\ effectsRun' = 0
    /\ HooksReset
    /\ lastEvent' = Event("mount", None, "", TRUE)
    /\ UNCHANGED <<asyncVars, viewVars, colorVars>>

\* The routing location changes while the page stays on screen.
LocationChange(s) ==
    /\ mounted
    /\ route = PageRoute
    /\ effectsRun = locationsSeen
    /\ locationsSeen < MaxLocations
    /\ location' = s
    /\ locationsSeen' = locationsSeen + 1
    /\ lastEvent' = Event("location", None, "", TRUE)
    /\ UNCHANGED <<mounted, mounts, route, effectsRun, hookVars, asyncVars, viewVars, colorVars>>

\* A slip: the payload's results always replace the state.
IngestResultsReplacing(cur, resultsData) == resultsData

\* if (resultsData) setResults(resultsData)   (lines 79-81)
IngestResults(cur, resultsData) ==
    IF resultsData # None THEN resultsData ELSE cur

\* if (responsesData) setResponses(responsesData)   (lines 82-84)
IngestResponses(cur, responsesData) ==
    IF responsesData # None THEN Get(responsesData) ELSE cur

\* A slip: the session is checked by the first run of the effect only.
LocationEffectCheckingOnce ==
    /\ mounted
    /\ effectsRun < locationsSeen
    /\ InFlight < MaxInFlight
    /\ pendingChecks' = IF effectsRun = 0 THEN Inc(pendingChecks, "live") ELSE pendingChecks
    /\ sessionQueries' = IF effectsRun = 0 THEN sessionQueries + 1 ELSE sessionQueries
    /\ results' = IF location.results # None THEN location.results ELSE results
    /\ responses' = IF location.responses # None THEN Get(location.responses) ELSE responses
    /\ loading' = FALSE
    /\ effectsRun' = effectsRun + 1
    /\ lastEvent' = Event("effect", None, "", TRUE)
    /\ UNCHANGED <<mounted, mounts, route, location, locationsSeen, userId,
                   assessmentHistory, pendingFetches, historyQueries, viewVars, colorVars>>

\* useEffect(..., [location])   (lines 73-90): checkAuth() runs up to its
\* await, so getSession() is called; then the payload is read.
LocationEffect ==
    /\ mounted
    /\ effectsRun < locationsSeen
    /\ InFlight < MaxInFlight
    /\ pendingChecks' = Inc(pendingChecks, "live")
    /\ sessionQueries' = sessionQueries + 1
    /\ results' = IngestResults(results, location.results)
    /\ responses' = IngestResponses(responses, location.responses)
    /\ loading' = FALSE
    /\ effectsRun' = effectsRun + 1
    /\ lastEvent' = Event("effect", None, "", TRUE)
    /\ UNCHANGED <<mounted, mounts, route, location, locationsSeen, userId,
                   assessmentHistory, pendingFetches, historyQueries, viewVars, colorVars>>

\* checkAuth after the await, no session   (lines 94-97)
CheckAuthNoSession(g) ==
    /\ pendingChecks[g] > 0
    /\ pendingChecks' = Dec(pendingChecks, g)
    /\ route' = AuthRoute
    /\ lastEvent' = Event("checkAuth", None, "resolved", Live(g))
    /\ UNCHANGED <<mounted, mounts, location, locationsSeen, effectsRun, hookVars,
                   pendingFetches, sessionQueries, historyQueries, viewVars, colorVars>>

\* A slip: the query is made for the userId state, not the session's id.
FetchArgumentFromState(session, userIdState) ==
    IF userIdState # None THEN Get(userIdState) ELSE Get(session).user.id

\* The user id fetchAssessmentHistory is called with   (line 99)
FetchArgument(session, userIdState) == Get(session).user.id

\* checkAuth after the await, with a session (lines 98-99);
\* fetchAssessmentHistory runs up to its await, so the query is issued.
CheckAuthSession(g, session) ==
    /\ pendingChecks[g] > 0
    /\ pendingChecks' = Dec(pendingChecks, g)
    /\ userId' = SetState(Live(g), userId, Some(Get(session).user.id))
    /\ pendingFetches' = Inc(pendingFetches, <<g, FetchArgument(session, userId)>>)
    /\ historyQueries' = IF Live(g) THEN historyQueries + 1 ELSE historyQueries
    /\ lastEvent' = Event("checkAuth", Some(Get(session).user.id), "resolved", Live(g))
    /\ UNCHANGED <<pageVars, results, responses, loading, assessmentHistory,
                   sessionQueries, viewVars, colorVars>>

\* getSession() rejects: checkAuth ends at the await   (line 93)
CheckAuthRejected(g) ==
    /\ pendingChecks[g] > 0
    /\ pendingChecks' = Dec(pendingChecks, g)
    /\ lastEvent' = Event("checkAuth", None, "rejected", Live(g))
    /\ UNCHANGED <<pageVars, hookVars, pendingFetches, sessionQueries,
                   historyQueries, viewVars, colorVars>>

\* A slip: a failed query clears the history.
HistoryClearedOnError(cur) == <<>>

\* The history state after a query that failed   (lines 111, 116-118)
HistoryAfterError(cur) == cur

\* The query returns an error field (line 111) or throws: caught and
\* logged   (lines 116-118)
FetchError(g, u, how) ==
    /\ pendingFetches[<<g, u>>] > 0
    /\ pendingFetches' = Dec(pendingFetches, <<g, u>>)
    /\ assessmentHistory' = SetState(Live(g), assessmentHistory, HistoryAfterError(assessmentHistory))
    /\ lastEvent' = Event("fetchAssessmentHistory", Some(u), how, Live(g))
    /\ UNCHANGED <<pageVars, results, responses, loading, userId, pendingChecks,
                   sessionQueries, historyQueries, viewVars, colorVars>>

\* The query returns neither error nor data   (line 113)
FetchNoData(g, u) ==
    /\ pendingFetches[<<g, u>>] > 0
    /\ pendingFetches' = Dec(pendingFetches, <<g, u>>)
    /\ lastEvent' = Event("fetchAssessmentHistory", Some(u), "null", Live(g))
    /\ UNCHANGED <<pageVars, hookVars, pendingChecks, sessionQueries,
                   historyQueries, viewVars, colorVars>>

\* The query returns records   (lines 113-115)
FetchData(g, u, data) ==
    /\ pendingFetches[<<g, u>>] > 0
    /\ pendingFetches' = Dec(pendingFetches, <<g, u>>)
    /\ assessmentHistory' = SetState(Live(g), assessmentHistory, data)
    /\ lastEvent' = Event("fetchAssessmentHistory", Some(u), "data", Live(g))
    /\ UNCHANGED <<pageVars, results, responses, loading, userId, pendingChecks,
                   sessionQueries, historyQueries, viewVars, colorVars>>

\* The router takes the page off screen; its state is gone with it.  The
\* operations it started stay in flight, now stale: nothing cancels them.
Unmount ==
    /\ mounted
    /\ mounted' = FALSE
    /\ route' = IF route = PageRoute THEN DashboardRoute ELSE route
    /\ location' = NoState
    /\ locationsSeen' = 0
    /\ effectsRun' = 0
    /\ HooksReset
    /\ pendingChecks' = [o \in Owners |->
                           IF o = "stale" THEN pendingChecks["stale"] + pendingChecks["live"] ELSE 0]
    /\ pendingFetches' = [k \in Owners \X UserIds |->
                            IF k[1] = "stale"
                            THEN pendingFetches[<<"stale", k[2]>>] + pendingFetches[<<"live", k[2]>>]
                            ELSE 0]
    /\ sessionQueries' = 0
    /\ historyQueries' = 0
    /\ lastEvent' = Event("unmount", None, "", FALSE)
    /\ UNCHANGED <<mounts, viewVars, colorVars>>

\* What the render function returns   (lines 121-147, 199)
Screen ==
    IF ~mounted THEN "none"
    ELSE IF loading THEN "loading"
    ELSE IF results = None THEN "No Assessment Data"
    ELSE "results"

Sessions == {Some([user |-> [id |-> u]]) : u \in UserIds}

Next ==
    \/ \E s \in NavStates : Mount(s)
    \/ \E s \in NavStates : LocationChange(s)
    \/ LocationEffect
    \/ \E g \in Owners : CheckAuthNoSession(g)
    \/ \E g \in Owners, session \in Sessions : CheckAuthSession(g, session)
    \/ \E g \in Owners : CheckAuthRejected(g)
    \/ \E g \in Owners, u \in UserIds, how \in {"error", "throw"} : FetchError(g, u, how)
    \/ \E g \in Owners, u \in UserIds : FetchNoData(g, u)
    \/ \E g \in Owners, u \in UserIds, data \in StoreAnswers : FetchData(g, u, data)
    \/ Unmount

Spec == Init /\ [][Next]_vars

----------------------------------------------------------------------------
(* The page at rest: mounted, the effect run, both operations resolved.    *)
(* The view specifications below start there, with the inputs of the       *)
(* derivation under study drawn from bounded sets.                         *)

Settled(res, resp, hist) ==
    /\ mounted = TRUE
    /\ mounts = 1
    /\ route = PageRoute
    /\ location = [results |-> res, responses |-> Some(resp)]
    /\ locationsSeen = 1
    /\ effectsRun = 1
    /\ results = res
    /\ responses = resp
    /\ loading = FALSE
    /\ userId = Some("u1")
    /\ assessmentHistory = hist
    /\ pendingChecks = [o \in Owners |-> 0]
    /\ pendingFetches = [k \in Owners \X UserIds |-> 0]
    /\ sessionQueries = 1
    /\ historyQueries = 1
    /\ lastEvent = Event("fetchAssessmentHistory", Some("u1"), "data", TRUE)

\* The part of the render function past the loading and placeholder
\* returns (lines 121-147): what the full page computes.
FullPage == mounted /\ ~loading /\ results # None

----------------------------------------------------------------------------
(* Chart: the history state, then a render *)

MaxHistory == 3
MaxDay == 2
HistoryLimit == 10

HistoryRecords ==
    {Record(sc, d, t) : sc \in {35, 47}, d \in 1 .. MaxDay, t \in 0 .. 1}

NotOlder(a, b) ==
    \/ a.created_at.day > b.created_at.day
    \/ a.created_at.day = b.created_at.day /\ a.created_at.tick >= b.created_at.tick

\* .order("created_at", { ascending: false }).limit(10)   (lines 108-109)
Histories ==
    {h \in UNION {[1 .. n -> HistoryRecords] : n \in 0 .. MaxHistory} :
        /\ Len(h) <= HistoryLimit
        /\ \A i \in 1 .. Len(h) - 1 : NotOlder(h[i], h[i + 1])}

InitChart ==
    /\ \E hist \in Histories : Settled(Some(R1), <<>>, hist)
    /\ ViewIdle
    /\ ColorIdle

\* A render of the full page as far as the chart   (lines 150-154)
RenderChart ==
    /\ FullPage
    /\ lastEvent.op # "render"
    /\ chartData' = BuildChart(assessmentHistory).chartData
    /\ assessmentHistory' = BuildChart(assessmentHistory).assessmentHistory
    /\ lastEvent' = Event("render", None, "", TRUE)
    /\ UNCHANGED <<pageVars, results, responses, loading, userId, asyncVars,
                   clock, exported, tableData, colorVars>>

NextChart == RenderChart

SpecChart == InitChart /\ [][NextChart]_vars

----------------------------------------------------------------------------
(* Table: a response map, then a render; the location may change           *)

MaxEntries == 2

SampleIds == {0, 1, 10, 11}
SampleAnswers == {"0", "1", "2", "3", "4", "5", "6", "good", "constructor"}

\* Response maps of up to MaxEntries entries over the given ids and answers,
\* each in every order its properties can be created in.
ResponseMaps(ids, answers) ==
    {m \in UNION {[1 .. n -> [id : ids, answer : answers]] : n \in 0 .. MaxEntries} :
        \A i, j \in 1 .. Len(m) : i # j => m[i].id # m[j].id}

InitTable ==
    /\ \E resp \in ResponseMaps(SampleIds, SampleAnswers) : Settled(Some(R1), resp, <<>>)
    /\ ViewIdle
    /\ ColorIdle

\* A render of the full page as far as the table   (lines 157-167)
RenderTable ==
    /\ FullPage
    /\ lastEvent.op # "render"
    /\ tableData' = TableData(responses)
    /\ lastEvent' = Event("render", None, "", TRUE)
    /\ UNCHANGED <<pageVars, hookVars, asyncVars, clock, exported, chartData, colorVars>>

NextTable ==
    \/ RenderTable
    \/ \E s \in NavStates : LocationChange(s)
    \/ LocationEffect

SpecTable == InitTable /\ [][NextTable]_vars

----------------------------------------------------------------------------
(* Export: results and a response map, then downloads as time passes       *)

MaxClock == 2
MaxExports == 2

ExportResults ==
    [overallScore : {0, 42, 50}, insights : {"Good balance", "Needs rest"}]

InitExport ==
    /\ \E res \in ExportResults, resp \in ResponseMaps({1, 2, 11}, {"4", "5"}) :
          Settled(Some(res), resp, <<>>)
    /\ ViewIdle
    /\ ColorIdle

\* Time passes by one unit of the date line's resolution.
Tick ==
    /\ clock < MaxClock
    /\ clock' = clock + 1
    /\ UNCHANGED <<pageVars, hookVars, asyncVars, lastEvent, exported, chartData,
                   tableData, colorVars>>

\* downloadResults (lines 177-197): the content handed to the download link.
DownloadResults ==
    /\ FullPage
    /\ Len(exported) < MaxExports
    /\ exported' = Append(exported, ExportContent(Get(results), TableData(responses), clock))
    /\ lastEvent' = Event("download", None, "", TRUE)
    /\ UNCHANGED <<pageVars, hookVars, asyncVars, clock, chartData, tableData, colorVars>>

NextExport == Tick \/ DownloadResults

SpecExport == InitExport /\ [][NextExport]_vars

----------------------------------------------------------------------------
(* Score colour: two scores of the 0-50 scale, then getScoreColor          *)

MaxScore == 50

InitColor ==
    /\ scoreA \in 0 .. MaxScore
    /\ scoreB \in 0 .. MaxScore
    /\ colorA = ""
    /\ colorB = ""
    /\ Settled(Some([overallScore |-> scoreA, insights |-> "Good balance"]), <<>>, <<>>)
    /\ ViewIdle

\* className of the score card   (line 234)
ApplyColor ==
    /\ FullPage
    /\ colorA = ""
    /\ colorA' = getScoreColor(Get(results).overallScore)
    /\ colorB' = getScoreColor(scoreB)
    /\ lastEvent' = Event("render", None, "", TRUE)
    /\ UNCHANGED <<pageVars, hookVars, asyncVars, viewVars, scoreA, scoreB>>

NextColor == ApplyColor

SpecColor == InitColor /\ [][NextColor]_vars

----------------------------------------------------------------------------
(* Steps, as the properties below recognise them *)

EffectStep == effectsRun' = effectsRun + 1

ChecksInFlight == pendingChecks["live"] + pendingChecks["stale"]
FetchesInFlight(u) == pendingFetches[<<"live", u>>] + pendingFetches[<<"stale", u>>]

CheckResolvedStep ==
    /\ ChecksInFlight' < ChecksInFlight
    /\ lastEvent'.op = "checkAuth"
    /\ lastEvent'.outcome = "resolved"

FetchIssuedStep ==
    \/ \E u \in UserIds : FetchesInFlight(u)' > FetchesInFlight(u)
    \/ historyQueries' > historyQueries

FetchFailedStep ==
    /\ \E u \in UserIds : FetchesInFlight(u)' < FetchesInFlight(u)
    /\ lastEvent'.outcome \in {"error", "throw"}

LateResolutionStep ==
    /\ pendingChecks' # pendingChecks \/ pendingFetches' # pendingFetches
    /\ lastEvent'.op \in {"checkAuth", "fetchAssessmentHistory"}
    /\ ~lastEvent'.live

----------------------------------------------------------------------------
(* C1 *)

\* C1: a session check that resolves with no session navigates to "/auth",
\* issues no history fetch and sets no user id; a history fetch is issued
\* only by a session check that resolved with a session, for that
\* session's user id.
C1_SessionGuard ==
    [][ /\ (CheckResolvedStep /\ lastEvent'.session = None) =>
              /\ route' = AuthRoute
              /\ pendingFetches' = pendingFetches
              /\ historyQueries' = historyQueries
              /\ userId' = userId
        /\ FetchIssuedStep =>
              /\ CheckResolvedStep
              /\ lastEvent'.session # None
              /\ \E g \in Owners :
                    /\ pendingChecks' = Dec(pendingChecks, g)
                    /\ pendingFetches' = Inc(pendingFetches, <<g, Get(lastEvent'.session)>>)
                    /\ historyQueries' = IF g = "live" THEN historyQueries + 1 ELSE historyQueries
      ]_vars

\* A check has just resolved with no session and sent the page to "/auth",
\* after an earlier check of the same instance found user u1 and issued
\* the fetch for u1, which is still in flight.
C1_Witness ==
    /\ mounted
    /\ lastEvent = Event("checkAuth", None, "resolved", TRUE)
    /\ route = AuthRoute
    /\ historyQueries = 1
    /\ userId = Some("u1")
    /\ pendingFetches[<<"live", "u1">>] = 1

----------------------------------------------------------------------------
(* C2 *)

\* C2 as stated: with no results in the navigation state the page shows
\* the placeholder and no history fetch is issued.
C2_NoResultsNoFetch ==
    (mounted /\ ~loading /\ effectsRun = locationsSeen /\ location.results = None) =>
        /\ Screen = "No Assessment Data"
        /\ historyQueries = 0
        /\ \A u \in UserIds : pendingFetches[<<"live", u>>] = 0

\* C2 as amended: once loading is cleared the placeholder shows exactly
\* when the results state is empty; a navigation state without results
\* leaves the results state as it was (empty at mount), one with results
\* replaces it; and a session check issues the history fetch exactly when
\* it resolves with a session, results or not.
C2_PlaceholderAndFetch ==
    /\ []((mounted /\ ~loading) => (Screen = "No Assessment Data" <=> results = None))
    /\ []((mounted /\ effectsRun = 0) => results = None)
    /\ [][EffectStep =>
            results' = IF location.results = None THEN results ELSE location.results]_vars
    /\ [][CheckResolvedStep => (FetchIssuedStep <=> lastEvent'.session # None)]_vars

\* The placeholder is on screen, the navigation state carries no results,
\* and the history fetch has been issued all the same.
C2_Witness ==
    /\ mounted
    /\ effectsRun = locationsSeen
    /\ location.results = None
    /\ Screen = "No Assessment Data"
    /\ historyQueries > 0

----------------------------------------------------------------------------
(* C3 *)

\* C3 as stated: after a failed history fetch the history state is empty
\* and the trend chart is omitted.
C3_ErrorLeavesEmpty ==
    (mounted /\ lastEvent.op = "fetchAssessmentHistory"
             /\ lastEvent.outcome \in {"error", "throw"} /\ lastEvent.live) =>
        /\ assessmentHistory = <<>>
        /\ ~ChartShown(BuildChart(assessmentHistory).chartData)

\* C3 as amended: a failed history fetch is swallowed and leaves the
\* history state, and the rest of the page, as it was; the history is
\* empty as long as the instance has issued no fetch.
C3_ErrorKeepsHistory ==
    /\ [][FetchFailedStep =>
            /\ assessmentHistory' = assessmentHistory
            /\ UNCHANGED <<mounted, route, results, responses, loading, userId>>]_vars
    /\ []((mounted /\ historyQueries = 0) => assessmentHistory = <<>>)

\* A fetch of the live instance has just failed while the history holds
\* the records of an earlier fetch, enough of them for the chart.
C3_Witness ==
    /\ mounted
    /\ lastEvent.op = "fetchAssessmentHistory"
    /\ lastEvent.outcome \in {"error", "throw"}
    /\ lastEvent.live
    /\ Len(assessmentHistory) = 2

----------------------------------------------------------------------------
(* C4 *)

\* C4: an operation that resolves after its instance was dismounted has no
\* effect: no navigation, no history fetch issued, no change of the state
\* on screen.
C4_LateResolutionDiscarded ==
    [][LateResolutionStep =>
          /\ route' = route
          /\ ~FetchIssuedStep
          /\ UNCHANGED <<mounted, hookVars>>]_vars

----------------------------------------------------------------------------
(* C5 *)

\* C5 as stated: getSession is called once per mount, and at most one
\* history fetch is issued per mount.
C5_OncePerMount ==
    /\ sessionQueries <= 1
    /\ historyQueries <= 1
    /\ (mounted /\ effectsRun > 0) => sessionQueries = 1

\* C5 as amended: getSession is called once per run of the location
\* effect, that is once at mount and once more for every change of the
\* routing location while mounted; each session check issues at most one
\* history fetch.
C5_OncePerEffect ==
    /\ mounted => (sessionQueries = effectsRun /\ effectsRun <= locationsSeen)
    /\ historyQueries + pendingChecks["live"] <= sessionQueries

\* The location changed once while mounted: two session checks, two
\* history fetches in one mount.
C5_Witness ==
    /\ mounted
    /\ locationsSeen = 2
    /\ sessionQueries = 2
    /\ historyQueries = 2

----------------------------------------------------------------------------
(* What the claims about the derived values expect, stated without the     *)
(* operators of the model                                                  *)

Rendered == lastEvent.op = "render"

BankIds == {questionBank[i].id : i \in 1 .. Len(questionBank)}

ExpectedQuestion(id) ==
    IF id \in BankIds
    THEN (CHOOSE i \in 1 .. Len(questionBank) : questionBank[i].id = id)
    ELSE 0

ExpectedText(id) ==
    IF id \in BankIds THEN questionBank[ExpectedQuestion(id)].text ELSE "Unknown question"

ExpectedCategory(id) ==
    IF id \in BankIds THEN questionBank[ExpectedQuestion(id)].category ELSE "Unknown"

ClaimedLabel(answer) ==
    CASE answer = "1" -> "Very Poor"
      [] answer = "2" -> "Poor"
      [] answer = "3" -> "Fair"
      [] answer = "4" -> "Good"
      [] answer = "5" -> "Excellent"
      [] OTHER -> answer

\* One row per entry of the response map, each with its question's text
\* and category, or "Unknown question"/"Unknown".
TableMatches(table, resp) ==
    /\ Len(table) = Len(resp)
    /\ \A e \in 1 .. Len(resp) :
          \E r \in 1 .. Len(table) :
             /\ table[r].questionId = resp[e].id
             /\ table[r].question = ExpectedText(resp[e].id)
             /\ table[r].category = ExpectedCategory(resp[e].id)

\* The entries of a response map by ascending question id.
AscendingOrder(resp) ==
    [k \in 1 .. Len(resp) |->
        resp[CHOOSE i \in 1 .. Len(resp) :
                Cardinality({j \in 1 .. Len(resp) : resp[j].id < resp[i].id}) = k - 1]]

\* The "Q: ..." and "A: ..." lines of the entries, in the order given.
ExpectedPairs(entries) ==
    [k \in 1 .. 2 * Len(entries) |->
        IF k % 2 = 1
        THEN <<"Q: ", ExpectedText(entries[(k + 1) \div 2].id)>>
        ELSE <<"A: ", ClaimedLabel(entries[k \div 2].answer)>>]

IsPairLine(line) == Len(line) = 2 /\ line[1] \in {"Q: ", "A: "}
IsDateLine(line) == Len(line) = 2 /\ line[1] = "Date: "
NotDateLine(line) == ~IsDateLine(line)

PairLines(text) == SelectSeq(text, IsPairLine)
WithoutDate(text) == SelectSeq(text, NotDateLine)
HasLine(text, line) == \E i \in 1 .. Len(text) : text[i] = line

----------------------------------------------------------------------------
(* C6 *)

\* C6: with results present, a history of length 0 or 1 gives no trend
\* chart; one of length n >= 2 gives a chart of exactly n points, oldest
\* first (the reverse of the fetched sequence), the i-th labelled
\* "Assessment i" with that record's overall_score; building the series
\* does not change the history state.
C6_Chart ==
    /\ [](Rendered =>
            LET n == Len(assessmentHistory)
            IN /\ results # None
               /\ ChartShown(chartData) <=> n >= 2
               /\ Len(chartData) = n
               /\ \A i \in 1 .. n :
                     /\ chartData[i].name = "Assessment " \o ToString(i)
                     /\ chartData[i].score = assessmentHistory[n + 1 - i].overall_score
                     /\ chartData[i].date =
                           "day " \o ToString(assessmentHistory[n + 1 - i].created_at.day))
    /\ [][assessmentHistory' = assessmentHistory]_vars

\* A chart of three points has been rendered from records of different
\* scores and days.
C6_Witness ==
    /\ Rendered
    /\ ChartShown(chartData)
    /\ Len(chartData) = 3
    /\ chartData[1].score # chartData[3].score
    /\ chartData[1].date # chartData[3].date

----------------------------------------------------------------------------
(* C7 *)

\* C7 as stated: two exports of the same results and responses are the
\* same text; the text holds "<overallScore>/50", the insights, and one
\* Q/A pair per response entry in the order the entries were supplied.
C7_ExportPure ==
    /\ \A i, j \in 1 .. Len(exported) : exported[i] = exported[j]
    /\ \A i \in 1 .. Len(exported) :
          /\ HasLine(exported[i], <<"Overall Score: ", ToString(Get(results).overallScore), "/50">>)
          /\ HasLine(exported[i], <<Get(results).insights>>)
          /\ PairLines(exported[i]) = ExpectedPairs(responses)

\* C7 as amended: two exports of the same results and responses are the
\* same text but for the Date line, which holds the time of the export;
\* the text holds "<overallScore>/50", the insights, and one Q/A pair per
\* response entry in ascending order of question id.
C7_ExportButDate ==
    /\ \A i, j \in 1 .. Len(exported) : WithoutDate(exported[i]) = WithoutDate(exported[j])
    /\ \A i \in 1 .. Len(exported) :
          /\ \E t \in 0 .. clock : HasLine(exported[i], <<"Date: ", "time " \o ToString(t)>>)
          /\ HasLine(exported[i], <<"Overall Score: ", ToString(Get(results).overallScore), "/50">>)
          /\ HasLine(exported[i], <<Get(results).insights>>)
          /\ PairLines(exported[i]) = ExpectedPairs(AscendingOrder(responses))

\* The same results and responses were exported twice, at different times,
\* from a response map whose second entry has the smaller question id.
C7_Witness ==
    /\ Len(exported) = 2
    /\ exported[1] # exported[2]
    /\ Len(responses) = 2
    /\ responses[1].id > responses[2].id

----------------------------------------------------------------------------
(* C8 *)

\* C8 as stated: the table has one row per entry of the response map of
\* the navigation state (none when the map is absent or empty), a known
\* id with its question's text and category, an unknown one with
\* "Unknown question" and "Unknown".
C8_TableOfNavigationState ==
    (Rendered /\ effectsRun = locationsSeen) =>
        IF location.responses = None THEN tableData = <<>>
        ELSE TableMatches(tableData, Get(location.responses))

\* C8 as amended: the table has one row per entry of the responses state,
\* a known id with its question's text and category, an unknown one with
\* "Unknown question" and "Unknown"; the responses state is the response
\* map of the navigation state when it carries one (an empty map gives an
\* empty table), and an absent map leaves it, and so the table, as the
\* location before left it.
C8_TableOfResponses ==
    /\ [](Rendered => TableMatches(tableData, responses))
    /\ []((mounted /\ effectsRun = locationsSeen /\ location.responses # None) =>
             responses = Get(location.responses))
    /\ [][(EffectStep /\ location.responses = None) => responses' = responses]_vars

\* The table was rendered after a change to a location without responses:
\* it still holds the rows of the earlier map, one of a known question and
\* one of an unknown id.
C8_Witness ==
    /\ Rendered
    /\ effectsRun = locationsSeen
    /\ location.responses = None
    /\ \E i, j \in 1 .. Len(tableData) :
          /\ tableData[i].question = "Unknown question"
          /\ tableData[i].category = "Unknown"
          /\ tableData[j].category = "emotional"

----------------------------------------------------------------------------
(* C9 *)

\* C9: the answer codes "1".."5" render as "Very Poor", "Poor", "Fair",
\* "Good", "Excellent", and every other answer code renders as the code
\* itself.
C9_AnswerLabels ==
    Rendered =>
        \A e \in 1 .. Len(responses) :
           \E r \in 1 .. Len(tableData) :
              /\ tableData[r].questionId = responses[e].id
              /\ tableData[r].answer = ClaimedLabel(responses[e].answer)

----------------------------------------------------------------------------
(* C10 *)

Tier(color) ==
    CASE color = "text-red-500" -> 0
      [] color = "text-yellow-500" -> 1
      [] color = "text-blue-500" -> 2
      [] color = "text-green-500" -> 3

Band(s) ==
    IF s \in 0 .. 19 THEN "text-red-500"
    ELSE IF s \in 20 .. 29 THEN "text-yellow-500"
    ELSE IF s \in 30 .. 39 THEN "text-blue-500"
    ELSE "text-green-500"

\* C10: for a score of 0..50 the colour is the lowest tier for 0..19, the
\* next for 20..29, the next for 30..39 and the top tier for 40..50, and
\* the tier never goes down as the score goes up.
C10_ColorBands ==
    colorA # "" =>
        /\ colorA = Band(scoreA)
        /\ colorB = Band(scoreB)
        /\ scoreA <= scoreB => Tier(colorA) <= Tier(colorB)

\* The colours of 39 and 40, either side of the top threshold, have been
\* computed.
C10_Witness ==
    /\ scoreA = 39
    /\ scoreB = 40
    /\ colorA = "text-blue-500"
    /\ colorB = "text-green-500"

====
